---- MODULE Spec2Model ----
(***************************************************************************)
(* Role rotation scheduler of the webinar repository.                      *)
(*                                                                         *)
(*   Spec    RoleDistributor          (src/webinar_v2_improved.py)         *)
(*   SpecV2  WebinarRoleDistributor   (src/webinar_v2.py)                  *)
(*                                                                         *)
(* Participants are heap objects: objs maps an object id to its fields,    *)
(* the roster and the rounds hold ids.  random.choice / random.sample are  *)
(* nondeterministic choices over every outcome they can produce.           *)
(***************************************************************************)
EXTENDS Integers, Sequences, FiniteSets, TLC

VARIABLES
    objs,                \* heap: object id -> Participant fields
    participants,        \* self.participants (list of object ids)
    rounds,              \* self.rounds
    current_round,       \* self.current_round
    next_speaker,        \* self.next_speaker
    max_rounds,          \* self.max_rounds
    observers_per_round, \* self.observers_per_round
    pc,                  \* position of the caller: "idle", "rounds", "balance", "done"
    bal,                 \* position of _balance_roles: 2*(index-1) + (0 listener, 1 observer)
    result,              \* value returned by the last distribute_roles call
    balance_ran,         \* _balance_roles was entered by the current call
    calls,               \* number of distribute_roles calls made on this instance
    pre,                 \* the heap as it was when the current call started
    swaps,               \* balancing swaps performed by the current call
    prev,                \* the call before the current one: its starting heap, result, rounds
    deleted,             \* the arguments delete_participant was called with, in order
    rng,                 \* the random module: state of the seeded generator, or Unseeded
    first_speaker        \* the local first_speaker of distribute_roles, recorded
                         \* while the schedule has fewer than two rounds
                         \* (nothing reads it after next_speaker is set)

vars == <<objs, participants, rounds, current_round, next_speaker, max_rounds,
          observers_per_round, pc, bal, result, balance_ran, calls, pre, swaps,
          prev, deleted, rng, first_speaker>>

----------------------------------------------------------------------------
(* Bounds of the model *)

MaxN == 5

MaxCalls == 2

MaxSeed == 7

MaxDeletes == 2

MaxCount == 3

(* Program constants *)

None == 0

MinParticipants == 5

ListenersPerRound == 2

ObserverThreshold == 15

----------------------------------------------------------------------------
(* Strings are sequences of characters; " " is the whitespace character. *)

Letters == <<"a", "b", "c", "d", "e", "f", "g", "h">>

RECURSIVE LStrip(_)
LStrip(s) == IF s # <<>> /\ Head(s) = " " THEN LStrip(Tail(s)) ELSE s

RECURSIVE RStrip(_)
RStrip(s) ==
    IF s # <<>> /\ s[Len(s)] = " " THEN RStrip(SubSeq(s, 1, Len(s) - 1)) ELSE s

Strip(s) == RStrip(LStrip(s))

validate_name(name) == Strip(name) # <<>> /\ Len(Strip(name)) > 0

validate_participant_data(first_name, last_name) ==
    validate_name(first_name) /\ validate_name(last_name)

Participant(first_name, last_name) ==
    [first_name |-> first_name, last_name |-> last_name,
     speaker_count |-> 0, listener_count |-> 0, observer_count |-> 0]

----------------------------------------------------------------------------
(* Rosters handed to the constructor *)

DistinctRoster(n) == [i \in 1..n |-> Participant(<<"p">>, <<Letters[i]>>)]

\* two entries with the same first and last name
TwinRoster(n) ==
    [i \in 1..n |-> Participant(<<"p">>, <<Letters[IF i = 2 THEN 1 ELSE i]>>)]

\* one entry whose last name is whitespace only
BlankRoster(n) ==
    [i \in 1..n |-> Participant(<<"p">>, IF i = n THEN <<" ">> ELSE <<Letters[i]>>)]

\* a roster whose first two entries were constructed with counters already set
UsedRoster(n) ==
    [i \in 1..n |->
        IF i <= 2
        THEN [DistinctRoster(n)[i] EXCEPT !.speaker_count = 1, !.listener_count = 1]
        ELSE DistinctRoster(n)[i]]

\* a roster of participants of an earlier webinar: three of them have spoken
\* and one has observed, so that only n - 3 rounds are built
ReturningRoster(n) ==
    [i \in 1..n |->
        IF i \in {3, 4, n} THEN [DistinctRoster(n)[i] EXCEPT !.speaker_count = 1]
        ELSE IF i = 1 THEN [DistinctRoster(n)[i] EXCEPT !.observer_count = 1]
        ELSE DistinctRoster(n)[i]]

Rosters ==
    {DistinctRoster(n) : n \in (MinParticipants - 1)..MaxN}
    \cup {UsedRoster(n) : n \in MinParticipants..MaxN}
    \cup {TwinRoster(n) : n \in MinParticipants..MaxN}
    \cup {BlankRoster(n) : n \in MinParticipants..MaxN}

----------------------------------------------------------------------------
(* Participant and Round helpers *)

get_role_count(o, p, role) ==
    IF role = "speaker" THEN o[p].speaker_count
    ELSE IF role = "listener" THEN o[p].listener_count
    ELSE IF role = "observer" THEN o[p].observer_count
    ELSE 0

\* mutation: the speaker branch counts a listening turn instead
increment_role_count_wrong_field(o, p, role) ==
    IF role = "speaker"
    THEN [o EXCEPT ![p].listener_count = @ + 1]
    ELSE IF role = "listener"
    THEN [o EXCEPT ![p].listener_count = @ + 1]
    ELSE IF role = "observer"
    THEN [o EXCEPT ![p].observer_count = @ + 1]
    ELSE o

increment_role_count(o, p, role) ==
    IF role = "speaker"
    THEN [o EXCEPT ![p].speaker_count = @ + 1]
    ELSE IF role = "listener"
    THEN [o EXCEPT ![p].listener_count = @ + 1]
    ELSE IF role = "observer"
    THEN [o EXCEPT ![p].observer_count = @ + 1]
    ELSE o

RECURSIVE IncrementAll(_, _, _)
IncrementAll(o, list, role) ==
    IF list = <<>> THEN o
    ELSE IncrementAll(increment_role_count(o, Head(list), role), Tail(list), role)

\* dataclass __eq__: the same object, or equal field by field
ParticipantEq(o, a, b) == a = b \/ o[a] = o[b]

\* `p in list` for a list of Participant dataclass objects
InList(o, p, list) == \E k \in 1..Len(list) : ParticipantEq(o, list[k], p)

get_participants(r) ==
    <<r.speaker>>
    \o (IF r.preparing # None THEN <<r.preparing>> ELSE <<>>)
    \o r.listeners \o r.observers

\* list.remove(x): drops the first element equal to x
RECURSIVE ListRemove(_, _, _)
ListRemove(o, list, x) ==
    IF list = <<>> THEN <<>>
    ELSE IF ParticipantEq(o, Head(list), x) THEN Tail(list)
    ELSE <<Head(list)>> \o ListRemove(o, Tail(list), x)

\* max(list, key=count): the first element carrying the largest key
MaxBy(o, list, role) ==
    LET k == CHOOSE i \in 1..Len(list) :
                 /\ \A j \in 1..Len(list) :
                        get_role_count(o, list[j], role) <= get_role_count(o, list[i], role)
                 /\ \A j \in 1..(i - 1) :
                        get_role_count(o, list[j], role) < get_role_count(o, list[i], role)
    IN list[k]

\* list.sort(key=count): stable, ascending
RECURSIVE SortFrom(_, _, _, _)
SortFrom(o, list, role, k) ==
    IF list = <<>> THEN <<>>
    ELSE SelectSeq(list, LAMBDA p : get_role_count(o, p, role) = k)
         \o SortFrom(o, SelectSeq(list, LAMBDA p : get_role_count(o, p, role) # k), role, k + 1)

\* mutation: the list is left in roster order
Unsorted(o, list, role) == list

SortByCount(o, list, role) == SortFrom(o, list, role, 0)

\* random.sample(list, k): every ordered choice of k distinct positions
Sample(list, k) ==
    {[j \in 1..k |-> list[f[j]]] :
        f \in {g \in [1..k -> 1..Len(list)] :
                  \A a, b \in 1..k : a # b => g[a] # g[b]}}

\* mutation: the slice keeps the whole list
WholeList(list, k) == list

\* list[:k]
Prefix(list, k) == SubSeq(list, 1, IF Len(list) < k THEN Len(list) ELSE k)

----------------------------------------------------------------------------
(* The random module.  Unseeded, every outcome of random.choice and         *)
(* random.sample is possible.  After random.seed(n) the outcomes are those  *)
(* of one deterministic generator; the generator here is a linear           *)
(* congruential one, each call of which consumes one value per element it   *)
(* draws.  A seeded run is one of the runs the unseeded program can make.   *)

Unseeded == -1

NextRandom(r) == IF r = Unseeded THEN r ELSE (75 * r + 74) % 65537

RandBelow(r, n) == r % n

RECURSIVE Advance(_, _)
Advance(r, k) == IF k = 0 THEN r ELSE Advance(NextRandom(r), k - 1)

\* random.sample(list, k) of a seeded generator in state r
RECURSIVE SeededSample(_, _, _)
SeededSample(list, k, r) ==
    IF k = 0 THEN <<>>
    ELSE LET i == RandBelow(r, Len(list)) + 1
         IN  <<list[i]>>
             \o SeededSample(SubSeq(list, 1, i - 1) \o SubSeq(list, i + 1, Len(list)),
                             k - 1, NextRandom(r))

----------------------------------------------------------------------------
(* RoleDistributor: construction *)

ObserversFor(n) == IF n >= ObserverThreshold THEN 2 ELSE 1

Init ==
    /\ objs \in Rosters
    /\ participants = [i \in 1..Len(objs) |-> i]
    /\ rounds = <<>>
    /\ current_round = 0
    /\ next_speaker = None
    /\ max_rounds = Len(objs)
    /\ observers_per_round = ObserversFor(Len(objs))
    /\ pc = "idle"
    /\ bal = 0
    /\ result = "none"
    /\ balance_ran = FALSE
    /\ calls = 0
    /\ pre = objs
    /\ swaps = 0
    /\ prev = [pre |-> objs, result |-> "none", rounds |-> <<>>]
    /\ deleted = <<>>
    /\ rng = Unseeded
    /\ first_speaker = None

----------------------------------------------------------------------------
(* RoleDistributor: selection *)

\* mutation: the minimum itself is refused
MoreThanMinimum(n) == n > MinParticipants

EnoughParticipants(n) == n >= MinParticipants

_validate_participants ==
    /\ EnoughParticipants(Len(participants))
    /\ \A k \in 1..Len(participants) :
           validate_participant_data(objs[participants[k]].first_name,
                                     objs[participants[k]].last_name)

\* the values random.choice(candidates) can return, None when there are none
Choice(candidates) == IF candidates = {} THEN {None} ELSE candidates

_select_speaker_with_min_count ==
    Choice({participants[k] : k \in {j \in 1..Len(participants) :
                objs[participants[j]].speaker_count = 0}})

\* mutation: the speaker_count == 0 filter is dropped
select_preparing_any_count(exclude) ==
    Choice({participants[k] : k \in {j \in 1..Len(participants) :
                ~InList(objs, participants[j], exclude)}})

\* mutation: the exclude list is ignored
select_preparing_without_exclude(exclude) == _select_speaker_with_min_count

_select_preparing_participant(exclude) ==
    Choice({participants[k] : k \in {j \in 1..Len(participants) :
                /\ ~InList(objs, participants[j], exclude)
                /\ objs[participants[j]].speaker_count = 0}})

\* the list `unserved` of _select_participants_for_role
Unserved(role, exclude) ==
    SelectSeq(participants,
        LAMBDA p : ~InList(objs, p, exclude) /\ get_role_count(objs, p, role) = 0)

\* the list `available` of _select_participants_for_role
Available(exclude) == SelectSeq(participants, LAMBDA p : ~InList(objs, p, exclude))

\* the lists _select_participants_for_role can return
_select_participants_for_role(role, exclude, count) ==
    IF Len(Unserved(role, exclude)) >= count
    THEN Sample(Unserved(role, exclude), count)
    ELSE {Prefix(SortByCount(objs, Available(exclude), role), count)}

\* the outcomes of a random.choice whose possible results are S, with the
\* generator in state r: the candidates are listed in roster order
Pick(S, r) ==
    IF r = Unseeded \/ S = {None} THEN S
    ELSE LET candidates == SelectSeq(participants, LAMBDA p : p \in S)
         IN  {candidates[RandBelow(r, Len(candidates)) + 1]}

\* the number of values that random.choice consumes
PickDraws(S) == IF S = {None} THEN 0 ELSE 1

\* the lists _select_participants_for_role returns with the generator in state r
Selected(role, exclude, count, r) ==
    IF r = Unseeded \/ Len(Unserved(role, exclude)) < count
    THEN _select_participants_for_role(role, exclude, count)
    ELSE {SeededSample(Unserved(role, exclude), count, r)}

\* the number of values that call consumes
SelectDraws(role, exclude, count) ==
    IF Len(Unserved(role, exclude)) >= count THEN count ELSE 0

----------------------------------------------------------------------------
(* RoleDistributor.distribute_roles up to the round loop *)

\* mutation: the schedule of the previous call is kept
KeptRounds == rounds

\* self.rounds.clear()
ClearedRounds == <<>>

ReturnFalse ==
    /\ result' = "False"
    /\ pc' = "done"

DistributeRoles ==
    /\ pc \in {"idle", "done"}
    /\ calls < MaxCalls
    /\ calls' = calls + 1
    /\ pre' = objs
    /\ prev' = [pre |-> pre, result |-> result, rounds |-> rounds]
    /\ UNCHANGED deleted
    /\ balance_ran' = FALSE
    /\ swaps' = 0
    /\ IF ~_validate_participants
       THEN /\ ReturnFalse
            /\ UNCHANGED <<objs, participants, rounds, current_round, next_speaker,
                           max_rounds, observers_per_round, bal, rng>>
            /\ first_speaker' = None
       ELSE /\ rounds' = ClearedRounds
            /\ current_round' = 0
            /\ \E chosen \in Pick(_select_speaker_with_min_count, rng) :
                  LET r1 == Advance(rng, PickDraws(_select_speaker_with_min_count))
                  IN  /\ first_speaker' = chosen
                      /\ IF chosen = None
                         THEN /\ ReturnFalse
                              /\ rng' = r1
                              /\ UNCHANGED next_speaker
                         ELSE /\ \E p \in Pick(_select_preparing_participant(<<chosen>>), r1) :
                                     next_speaker' = p
                              /\ rng' = Advance(r1, PickDraws(
                                            _select_preparing_participant(<<chosen>>)))
                              /\ result' = "none"
                              /\ pc' = "rounds"
            /\ UNCHANGED <<objs, participants, max_rounds, observers_per_round, bal>>

----------------------------------------------------------------------------
(* RoleDistributor._create_next_round, one call per step *)

Round(round_number, speaker, preparing, listeners, observers) ==
    [round_number |-> round_number, speaker |-> speaker, preparing |-> preparing,
     listeners |-> listeners, observers |-> observers]

\* _create_next_round returned False: the loop ends and _balance_roles starts
LoopEnds ==
    /\ pc' = "balance"
    /\ bal' = 0
    /\ balance_ran' = TRUE
    /\ UNCHANGED <<objs, participants, rounds, current_round, next_speaker,
                   max_rounds, observers_per_round, result, calls, pre, swaps,
                   prev, deleted>>
    /\ first_speaker' = None

RoundsExhausted == current_round >= max_rounds

\* mutation: a short selection is not noticed
QuotaNeverShort(list, quota) == FALSE

QuotaShort(list, quota) == Len(list) < quota

AppendRound(speaker, preparing, listeners, observers) ==
    /\ objs' = IncrementAll(
                  IncrementAll(increment_role_count(objs, speaker, "speaker"),
                               listeners, "listener"),
                  observers, "observer")
    /\ rounds' = Append(rounds,
                    Round(current_round + 1, speaker, preparing, listeners, observers))
    /\ next_speaker' = preparing
    /\ current_round' = current_round + 1
    /\ UNCHANGED <<participants, max_rounds, observers_per_round, pc, bal, result,
                   balance_ran, calls, pre, swaps,
                   prev, deleted>>
    /\ first_speaker' = IF rounds = <<>> THEN first_speaker ELSE None

CreateNextRound ==
    /\ pc = "rounds"
    /\ IF RoundsExhausted
       THEN LoopEnds /\ UNCHANGED rng
       ELSE \E speaker \in (IF next_speaker # None THEN {next_speaker}
                            ELSE Pick(_select_speaker_with_min_count, rng)) :
          LET r1 == IF next_speaker # None THEN rng
                    ELSE Advance(rng, PickDraws(_select_speaker_with_min_count))
          IN  IF speaker = None
              THEN LoopEnds /\ rng' = r1
              ELSE \E preparing \in Pick(_select_preparing_participant(<<speaker>>), r1) :
                 LET exclude_list == IF preparing # None THEN <<speaker, preparing>>
                                     ELSE <<speaker>>
                     r2 == Advance(r1, PickDraws(_select_preparing_participant(<<speaker>>)))
                     r3 == Advance(r2, SelectDraws("listener", exclude_list,
                                                   ListenersPerRound))
                 IN \E listeners \in Selected("listener", exclude_list,
                                              ListenersPerRound, r2) :
                      IF QuotaShort(listeners, ListenersPerRound)
                      THEN LoopEnds /\ rng' = r3
                      ELSE \E observers \in Selected("observer", exclude_list \o listeners,
                                                     observers_per_round, r3) :
                          LET r4 == Advance(r3, SelectDraws("observer",
                                                    exclude_list \o listeners,
                                                    observers_per_round))
                          IN  /\ rng' = r4
                              /\ IF QuotaShort(observers, observers_per_round)
                                 THEN LoopEnds
                                 ELSE AppendRound(speaker, preparing, listeners, observers)

----------------------------------------------------------------------------
(* RoleDistributor._balance_roles, one _assign_as_* call per step *)

\* mutation: the participant's presence in the round is not tested
can_assign_ignoring_presence(o, p, r, role) ==
    IF role = "listener" THEN Len(r.listeners) > 0
    ELSE IF role = "observer" THEN Len(r.observers) > 0
    ELSE FALSE

_can_assign_to_round(o, p, r, role) ==
    IF InList(o, p, get_participants(r)) THEN FALSE
    ELSE IF role = "listener" THEN Len(r.listeners) > 0
    ELSE IF role = "observer" THEN Len(r.observers) > 0
    ELSE FALSE

\* mutation: the most experienced listener is evicted whatever its count
ListenerSwapAlways(o, most_experienced, p) == o[most_experienced].listener_count > 0

\* the guard under which _assign_as_listener evicts most_experienced
ListenerSwapAllowed(o, most_experienced, p) == o[most_experienced].listener_count > 1

\* the guard under which _assign_as_observer evicts most_experienced
ObserverSwapAllowed(o, most_experienced, p) ==
    o[most_experienced].observer_count > 1 \/ o[p].observer_count = 0

\* mutation: the evicted listener keeps its counter
SwapListenerKeepingCount(o, rs, i, most_experienced, p) ==
    [objs |-> [o EXCEPT ![p].listener_count = @ + 1],
     rounds |-> [rs EXCEPT ![i].listeners =
                     Append(ListRemove(o, @, most_experienced), p)],
     ok |-> TRUE]

SwapListener(o, rs, i, most_experienced, p) ==
    [objs |-> [o EXCEPT ![most_experienced].listener_count = @ - 1,
                        ![p].listener_count = @ + 1],
     rounds |-> [rs EXCEPT ![i].listeners =
                     Append(ListRemove(o, @, most_experienced), p)],
     ok |-> TRUE]

\* mutation: the evicted observer keeps its counter
SwapObserverKeepingCount(o, rs, i, most_experienced, p) ==
    [objs |-> [o EXCEPT ![p].observer_count = @ + 1],
     rounds |-> [rs EXCEPT ![i].observers =
                     Append(ListRemove(o, @, most_experienced), p)],
     ok |-> TRUE]

\* mutation: the newcomer also takes the speaker slot of the round
SwapObserverTakingSpeaker(o, rs, i, most_experienced, p) ==
    [objs |-> [o EXCEPT ![most_experienced].observer_count = @ - 1,
                        ![p].observer_count = @ + 1],
     rounds |-> [rs EXCEPT ![i].observers = Append(ListRemove(o, @, most_experienced), p),
                           ![i].speaker = p],
     ok |-> TRUE]

SwapObserver(o, rs, i, most_experienced, p) ==
    [objs |-> [o EXCEPT ![most_experienced].observer_count = @ - 1,
                        ![p].observer_count = @ + 1],
     rounds |-> [rs EXCEPT ![i].observers =
                     Append(ListRemove(o, @, most_experienced), p)],
     ok |-> TRUE]

\* _assign_as_listener(p), scanning the rounds from index i
RECURSIVE _assign_as_listener(_, _, _, _)
_assign_as_listener(o, rs, p, i) ==
    IF i > Len(rs) THEN [objs |-> o, rounds |-> rs, ok |-> FALSE]
    ELSE LET most_experienced == MaxBy(o, rs[i].listeners, "listener")
         IN  IF /\ _can_assign_to_round(o, p, rs[i], "listener")
                /\ rs[i].listeners # <<>>
                /\ ListenerSwapAllowed(o, most_experienced, p)
             THEN SwapListener(o, rs, i, most_experienced, p)
             ELSE _assign_as_listener(o, rs, p, i + 1)

\* _assign_as_observer(p), scanning the rounds from index i
RECURSIVE _assign_as_observer(_, _, _, _)
_assign_as_observer(o, rs, p, i) ==
    IF i > Len(rs) THEN [objs |-> o, rounds |-> rs, ok |-> FALSE]
    ELSE LET most_experienced == MaxBy(o, rs[i].observers, "observer")
         IN  IF /\ _can_assign_to_round(o, p, rs[i], "observer")
                /\ rs[i].observers # <<>>
                /\ ObserverSwapAllowed(o, most_experienced, p)
             THEN SwapObserver(o, rs, i, most_experienced, p)
             ELSE _assign_as_observer(o, rs, p, i + 1)

\* positions of _balance_roles: participant index and which while loop
BalParticipant(k) == participants[(k \div 2) + 1]

BalRole(k) == IF k % 2 = 0 THEN "listener" ELSE "observer"

BalEnd == 2 * Len(participants)

\* the while condition at position k
WhileHolds(k) == get_role_count(objs, BalParticipant(k), BalRole(k)) = 0

\* the next position at or after k whose while condition holds
RECURSIVE ScanFrom(_)
ScanFrom(k) ==
    IF k >= BalEnd THEN BalEnd
    ELSE IF WhileHolds(k) THEN k
    ELSE ScanFrom(k + 1)

NextCall == ScanFrom(bal)

\* mutation: no `break` after a failed attempt
AfterAssignNoBreak(k, ok) == k

\* where the loop resumes after an _assign_as_* call at position k:
\* the while condition is tested again after a success, `break` after a failure
AfterAssign(k, ok) == IF ok THEN k ELSE k + 1

BalanceAssignListener ==
    /\ pc = "balance"
    /\ LET k == NextCall
           r == _assign_as_listener(objs, rounds, BalParticipant(k), 1)
       IN  /\ k < BalEnd
           /\ BalRole(k) = "listener"
           /\ objs' = r.objs
           /\ rounds' = r.rounds
           /\ bal' = AfterAssign(k, r.ok)
           /\ swaps' = IF r.ok THEN swaps + 1 ELSE swaps
    /\ UNCHANGED <<participants, current_round, next_speaker, max_rounds,
                   observers_per_round, pc, result, balance_ran, calls, pre,
                   prev, deleted, rng, first_speaker>>

BalanceAssignObserver ==
    /\ pc = "balance"
    /\ LET k == NextCall
           r == _assign_as_observer(objs, rounds, BalParticipant(k), 1)
       IN  /\ k < BalEnd
           /\ BalRole(k) = "observer"
           /\ objs' = r.objs
           /\ rounds' = r.rounds
           /\ bal' = AfterAssign(k, r.ok)
           /\ swaps' = IF r.ok THEN swaps + 1 ELSE swaps
    /\ UNCHANGED <<participants, current_round, next_speaker, max_rounds,
                   observers_per_round, pc, result, balance_ran, calls, pre,
                   prev, deleted, rng, first_speaker>>

\* _balance_roles as a function of the heap and the schedule it is applied to:
\* the result of running it from position k to the end of the roster
RECURSIVE BalanceFrom(_, _, _)
BalanceFrom(o, rs, k) ==
    IF k >= BalEnd THEN [objs |-> o, rounds |-> rs]
    ELSE IF get_role_count(o, BalParticipant(k), BalRole(k)) # 0
    THEN BalanceFrom(o, rs, k + 1)
    ELSE LET r == IF BalRole(k) = "listener"
                  THEN _assign_as_listener(o, rs, BalParticipant(k), 1)
                  ELSE _assign_as_observer(o, rs, BalParticipant(k), 1)
         IN  BalanceFrom(r.objs, r.rounds, AfterAssign(k, r.ok))

_balance_roles(o, rs) == BalanceFrom(o, rs, 0)

\* _balance_roles ran off the end of the roster: distribute_roles returns True
BalanceReturn ==
    /\ pc = "balance"
    /\ NextCall = BalEnd
    /\ pc' = "done"
    /\ bal' = BalEnd
    /\ result' = "True"
    /\ UNCHANGED <<objs, participants, rounds, current_round, next_speaker,
                   max_rounds, observers_per_round, balance_ran, calls, pre, swaps,
                   prev, deleted, rng, first_speaker>>

----------------------------------------------------------------------------

Next ==
    \/ DistributeRoles
    \/ CreateNextRound
    \/ BalanceAssignListener
    \/ BalanceAssignObserver
    \/ BalanceReturn

Spec == Init /\ [][Next]_vars

\* every step is eventually taken while one is possible: the call runs to its end
LiveSpec == Spec /\ WF_vars(Next)

\* the runs after random.seed(n), n in 0..MaxSeed, on the rosters above and on
\* a roster of one participant more
SeededRosters == Rosters \cup {DistinctRoster(MaxN + 1)}

InitSeeded ==
    /\ objs \in SeededRosters
    /\ participants = [i \in 1..Len(objs) |-> i]
    /\ rounds = <<>>
    /\ current_round = 0
    /\ next_speaker = None
    /\ max_rounds = Len(objs)
    /\ observers_per_round = ObserversFor(Len(objs))
    /\ pc = "idle"
    /\ bal = 0
    /\ result = "none"
    /\ balance_ran = FALSE
    /\ calls = 0
    /\ pre = objs
    /\ swaps = 0
    /\ prev = [pre |-> objs, result |-> "none", rounds |-> <<>>]
    /\ deleted = <<>>
    /\ rng \in 0..MaxSeed
    /\ first_speaker = None

SpecSeeded == InitSeeded /\ [][Next]_vars

\* every random outcome on the rosters above and on a returning roster of one
\* participant more, in which a participant can be absent from a round
ReturningRosters == Rosters \cup {ReturningRoster(MaxN + 1)}

InitReturning ==
    /\ objs \in ReturningRosters
    /\ participants = [i \in 1..Len(objs) |-> i]
    /\ rounds = <<>>
    /\ current_round = 0
    /\ next_speaker = None
    /\ max_rounds = Len(objs)
    /\ observers_per_round = ObserversFor(Len(objs))
    /\ pc = "idle"
    /\ bal = 0
    /\ result = "none"
    /\ balance_ran = FALSE
    /\ calls = 0
    /\ pre = objs
    /\ swaps = 0
    /\ prev = [pre |-> objs, result |-> "none", rounds |-> <<>>]
    /\ deleted = <<>>
    /\ rng = Unseeded
    /\ first_speaker = None

SpecReturning == InitReturning /\ [][Next]_vars

----------------------------------------------------------------------------
(* WebinarRoleDistributor (webinar_v2.py).  Its Participant is a plain class: *)
(* `in` and `!=` compare object identity.                                     *)

V2MinParticipants == 5

V2ListenersPerRound == 2

V2ObserversFor(n) == IF n >= 15 THEN 2 ELSE 1

\* MaxN bounds the number of participants a run operates on; the roster of
\* MaxN + 1 is one that delete_participant has to shorten before a run
V2Rosters ==
    {DistinctRoster(n) : n \in (V2MinParticipants - 1)..(MaxN + 1)}
    \cup {UsedRoster(n) : n \in V2MinParticipants..MaxN}

InitV2 ==
    /\ objs \in V2Rosters
    /\ participants = [i \in 1..Len(objs) |-> i]
    /\ rounds = <<>>
    /\ current_round = 0
    /\ next_speaker = None
    /\ max_rounds = Len(objs)
    /\ observers_per_round = V2ObserversFor(Len(objs))
    /\ pc = "idle"
    /\ bal = 0
    /\ result = "none"
    /\ balance_ran = FALSE
    /\ calls = 0
    /\ pre = objs
    /\ swaps = 0
    /\ prev = [pre |-> objs, result |-> "none", rounds |-> <<>>]
    /\ deleted = <<>>
    /\ rng = Unseeded
    /\ first_speaker = None

V2In(p, list) == \E k \in 1..Len(list) : list[k] = p

\* mutation: the first element goes, whichever was asked for
V2RemoveFirst(list, x) == Tail(list)

\* list.remove(x) on plain objects: drops the first occurrence of x
V2Remove(list, x) ==
    LET k == CHOOSE i \in 1..Len(list) : list[i] = x /\ \A j \in 1..(i - 1) : list[j] # x
    IN  SubSeq(list, 1, k - 1) \o SubSeq(list, k + 1, Len(list))

\* min(list, key=count): the first element carrying the smallest key
MinBy(o, list, role) ==
    LET k == CHOOSE i \in 1..Len(list) :
                 /\ \A j \in 1..Len(list) :
                        get_role_count(o, list[i], role) <= get_role_count(o, list[j], role)
                 /\ \A j \in 1..(i - 1) :
                        get_role_count(o, list[i], role) < get_role_count(o, list[j], role)
    IN list[k]

V2_select_random_speaker ==
    Choice({participants[k] : k \in {j \in 1..Len(participants) :
                objs[participants[j]].speaker_count = 0}})

V2_select_preparing_participant(exclude) ==
    Choice({participants[k] : k \in {j \in 1..Len(participants) :
                /\ ~V2In(participants[j], exclude)
                /\ objs[participants[j]].speaker_count = 0}})

\* _select_listeners / _select_observers with force_unserved=True
V2Unserved(role, exclude) ==
    SelectSeq(participants,
        LAMBDA p : ~V2In(p, exclude) /\ get_role_count(objs, p, role) = 0)

V2_select(role, exclude, count) ==
    LET candidates == SelectSeq(participants, LAMBDA p : ~V2In(p, exclude))
    IN  IF Len(V2Unserved(role, exclude)) >= count
        THEN Sample(V2Unserved(role, exclude), count)
        ELSE {Prefix(SortByCount(objs, candidates, role), count)}

\* the lists _select_listeners / _select_observers return with the generator in
\* state r, and the number of values the call consumes
V2Selected(role, exclude, count, r) ==
    IF r = Unseeded \/ Len(V2Unserved(role, exclude)) < count
    THEN V2_select(role, exclude, count)
    ELSE {SeededSample(V2Unserved(role, exclude), count, r)}

V2SelectDraws(role, exclude, count) ==
    IF Len(V2Unserved(role, exclude)) >= count THEN count ELSE 0

V2_select_listeners(exclude, count) == V2_select("listener", exclude, count)

V2_select_observers(exclude, count) == V2_select("observer", exclude, count)

\* delete_participant(p), between the calls of distribute_roles
V2DeleteParticipant ==
    /\ pc \in {"idle", "done"}
    /\ Len(deleted) < MaxDeletes
    /\ \E participant \in DOMAIN objs :
          /\ deleted' = Append(deleted, participant)
          /\ participants' = IF V2In(participant, participants)
                              THEN V2Remove(participants, participant)
                              ELSE participants
    /\ UNCHANGED <<objs, rounds, current_round, next_speaker, max_rounds,
                   observers_per_round, pc, bal, result, balance_ran, calls, pre,
                   swaps, prev, rng, first_speaker>>

\* the number of participants a run is explored on: MaxN when every random
\* outcome is followed, one more when a seed fixes the outcomes
MaxRun == IF rng = Unseeded THEN MaxN ELSE MaxN + 1

V2DistributeRoles ==
    /\ pc \in {"idle", "done"}
    /\ calls < MaxCalls
    /\ Len(participants) <= MaxRun
    /\ calls' = calls + 1
    /\ pre' = objs
    /\ prev' = [pre |-> pre, result |-> result, rounds |-> rounds]
    /\ UNCHANGED deleted
    /\ balance_ran' = FALSE
    /\ swaps' = 0
    /\ IF Len(participants) < V2MinParticipants
       THEN /\ ReturnFalse
            /\ UNCHANGED <<objs, participants, rounds, current_round, next_speaker,
                           max_rounds, observers_per_round, bal, rng>>
            /\ first_speaker' = None
       ELSE /\ rounds' = <<>>
            /\ current_round' = 0
            /\ \E chosen \in Pick(V2_select_random_speaker, rng) :
                  LET r1 == Advance(rng, PickDraws(V2_select_random_speaker))
                  IN  /\ first_speaker' = chosen
                      /\ IF chosen = None
                         THEN /\ ReturnFalse
                              /\ rng' = r1
                              /\ UNCHANGED next_speaker
                         ELSE /\ \E p \in Pick(V2_select_preparing_participant(<<chosen>>), r1) :
                                     next_speaker' = p
                              /\ rng' = Advance(r1, PickDraws(
                                            V2_select_preparing_participant(<<chosen>>)))
                              /\ result' = "none"
                              /\ pc' = "rounds"
            /\ UNCHANGED <<objs, participants, max_rounds, observers_per_round, bal>>

\* _distribute_next_round, one call per step
V2DistributeNextRound ==
    /\ pc = "rounds"
    /\ IF current_round >= max_rounds
       THEN LoopEnds /\ UNCHANGED rng
       ELSE \E speaker \in (IF next_speaker # None THEN {next_speaker}
                            ELSE Pick(V2_select_random_speaker, rng)) :
          LET r1 == IF next_speaker # None THEN rng
                    ELSE Advance(rng, PickDraws(V2_select_random_speaker))
          IN  IF speaker = None
              THEN LoopEnds /\ rng' = r1
              ELSE \E preparing \in Pick(V2_select_preparing_participant(<<speaker>>),
                                         r1) :
                 LET r2 == Advance(r1, PickDraws(
                                    V2_select_preparing_participant(<<speaker>>)))
                 IN  IF preparing = None /\ Len(rounds) < max_rounds - 1
                     THEN LoopEnds /\ rng' = r2
                     ELSE LET exclude == IF preparing # None THEN <<speaker, preparing>>
                                         ELSE <<speaker>>
                              r3 == Advance(r2, V2SelectDraws("listener", exclude,
                                                              V2ListenersPerRound))
                          IN \E listeners \in V2Selected("listener", exclude,
                                                         V2ListenersPerRound, r2) :
                               \E observers \in V2Selected("observer",
                                                     exclude \o listeners,
                                                     observers_per_round, r3) :
                                  /\ rng' = Advance(r3, V2SelectDraws("observer",
                                                exclude \o listeners, observers_per_round))
                                  /\ AppendRound(speaker, preparing, listeners, observers)

\* _assign_as_listener(p), scanning the rounds from index i
RECURSIVE V2_assign_as_listener(_, _, _, _)
V2_assign_as_listener(o, rs, p, i) ==
    IF i > Len(rs) THEN [objs |-> o, rounds |-> rs, ok |-> FALSE]
    ELSE LET replaced == MinBy(o, rs[i].listeners, "listener")
         IN  IF /\ ~V2In(p, rs[i].listeners)
                /\ p # rs[i].speaker
                /\ p # rs[i].preparing
                /\ ~V2In(p, rs[i].observers)
                /\ Len(rs[i].listeners) > 0
                /\ o[replaced].listener_count > 1
             THEN [objs |-> [o EXCEPT ![replaced].listener_count = @ - 1,
                                      ![p].listener_count = @ + 1],
                   rounds |-> [rs EXCEPT ![i].listeners = Append(V2Remove(@, replaced), p)],
                   ok |-> TRUE]
             ELSE V2_assign_as_listener(o, rs, p, i + 1)

\* _assign_as_observer(p), scanning the rounds from index i
RECURSIVE V2_assign_as_observer(_, _, _, _)
V2_assign_as_observer(o, rs, p, i) ==
    IF i > Len(rs) THEN [objs |-> o, rounds |-> rs, ok |-> FALSE]
    ELSE LET replaced == MaxBy(o, rs[i].observers, "observer")
         IN  IF /\ Len(rs[i].observers) > 0
                /\ p # rs[i].speaker
                /\ p # rs[i].preparing
                /\ ~V2In(p, rs[i].listeners)
                /\ (o[replaced].observer_count > 1 \/ o[p].observer_count = 0)
             THEN [objs |-> [o EXCEPT ![replaced].observer_count = @ - 1,
                                      ![p].observer_count = @ + 1],
                   rounds |-> [rs EXCEPT ![i].observers = Append(V2Remove(@, replaced), p)],
                   ok |-> TRUE]
             ELSE V2_assign_as_observer(o, rs, p, i + 1)

\* where the loop resumes after an _assign_as_* call at position k: the while
\* condition is tested again, whatever the call did
V2AfterAssign(k, ok) == k

V2BalanceAssignListener ==
    /\ pc = "balance"
    /\ LET k == NextCall
           r == V2_assign_as_listener(objs, rounds, BalParticipant(k), 1)
       IN  /\ k < BalEnd
           /\ BalRole(k) = "listener"
           /\ objs' = r.objs
           /\ rounds' = r.rounds
           /\ bal' = V2AfterAssign(k, r.ok)
           /\ swaps' = IF r.ok THEN swaps + 1 ELSE swaps
    /\ UNCHANGED <<participants, current_round, next_speaker, max_rounds,
                   observers_per_round, pc, result, balance_ran, calls, pre,
                   prev, deleted, rng, first_speaker>>

V2BalanceAssignObserver ==
    /\ pc = "balance"
    /\ LET k == NextCall
           r == V2_assign_as_observer(objs, rounds, BalParticipant(k), 1)
       IN  /\ k < BalEnd
           /\ BalRole(k) = "observer"
           /\ objs' = r.objs
           /\ rounds' = r.rounds
           /\ bal' = V2AfterAssign(k, r.ok)
           /\ swaps' = IF r.ok THEN swaps + 1 ELSE swaps
    /\ UNCHANGED <<participants, current_round, next_speaker, max_rounds,
                   observers_per_round, pc, result, balance_ran, calls, pre,
                   prev, deleted, rng, first_speaker>>

NextV2 ==
    \/ V2DeleteParticipant
    \/ V2DistributeRoles
    \/ V2DistributeNextRound
    \/ V2BalanceAssignListener
    \/ V2BalanceAssignObserver
    \/ BalanceReturn

SpecV2 == InitV2 /\ [][NextV2]_vars

LiveSpecV2 == SpecV2 /\ WF_vars(NextV2)

\* the runs after random.seed(n), n in 0..MaxSeed, on the rosters above and on
\* a roster of MaxN + 2
V2SeededRosters == V2Rosters \cup {DistinctRoster(MaxN + 2)}

InitV2Seeded ==
    /\ objs \in V2SeededRosters
    /\ participants = [i \in 1..Len(objs) |-> i]
    /\ rounds = <<>>
    /\ current_round = 0
    /\ next_speaker = None
    /\ max_rounds = Len(objs)
    /\ observers_per_round = V2ObserversFor(Len(objs))
    /\ pc = "idle"
    /\ bal = 0
    /\ result = "none"
    /\ balance_ran = FALSE
    /\ calls = 0
    /\ pre = objs
    /\ swaps = 0
    /\ prev = [pre |-> objs, result |-> "none", rounds |-> <<>>]
    /\ deleted = <<>>
    /\ rng \in 0..MaxSeed
    /\ first_speaker = None

SpecV2Seeded == InitV2Seeded /\ [][NextV2]_vars


----------------------------------------------------------------------------
(* Vocabulary of the properties *)

Ids == DOMAIN objs

\* the roster was fresh when the current call started
FreshRoster ==
    \A p \in DOMAIN pre :
        pre[p].speaker_count = 0 /\ pre[p].listener_count = 0 /\ pre[p].observer_count = 0

DistinctNames ==
    \A a, b \in DOMAIN pre :
        a # b => <<pre[a].first_name, pre[a].last_name>>
                    # <<pre[b].first_name, pre[b].last_name>>

\* no first or last name is empty or whitespace only
NonBlankNames ==
    \A p \in DOMAIN pre :
        /\ \E k \in 1..Len(pre[p].first_name) : pre[p].first_name[k] # " "
        /\ \E k \in 1..Len(pre[p].last_name) : pre[p].last_name[k] # " "

RosterSize == Len(participants)

RECURSIVE SumSpeakerCount(_)
SumSpeakerCount(n) == IF n = 0 THEN 0 ELSE objs[n].speaker_count + SumSpeakerCount(n - 1)

RoundsAsSpeaker(p) == {i \in 1..Len(rounds) : rounds[i].speaker = p}

\* the ids holding a role in round r, one entry per role held
RoleHolders(r) ==
    <<r.speaker>> \o (IF r.preparing = None THEN <<>> ELSE <<r.preparing>>)
    \o r.listeners \o r.observers

NoRepeat(list) == \A a, b \in 1..Len(list) : a # b => list[a] # list[b]

Returned(v) == pc = "done" /\ result = v

----------------------------------------------------------------------------
(* C1 *)

\* C1 as stated: on a fresh roster of N >= 5 participants with pairwise distinct
\* names distribute_roles returns True with exactly N rounds, every participant
\* being the speaker of exactly one round and ending with speaker_count = 1.
C1_AsStated ==
    (pc = "done" /\ FreshRoster /\ DistinctNames /\ RosterSize >= 5)
    => /\ result = "True"
       /\ Len(rounds) = RosterSize
       /\ \A p \in Ids : Cardinality(RoundsAsSpeaker(p)) = 1 /\ objs[p].speaker_count = 1

\* C1 amended: the same, for a roster whose names are also all non-blank (a blank
\* name makes _validate_participants fail and the call return False).
C1_EverySpeaksOnce ==
    (pc = "done" /\ FreshRoster /\ DistinctNames /\ NonBlankNames /\ RosterSize >= 5)
    => /\ result = "True"
       /\ Len(rounds) = RosterSize
       /\ \A p \in Ids : Cardinality(RoundsAsSpeaker(p)) = 1 /\ objs[p].speaker_count = 1

C1_Witness ==
    /\ Returned("True") /\ FreshRoster /\ DistinctNames /\ NonBlankNames
    /\ RosterSize >= 5 /\ Len(rounds) = RosterSize

----------------------------------------------------------------------------
(* C2 *)

\* C2: on a fresh roster of N >= 5, in every state of the run len(rounds) <= N and
\* the sum of speaker_count equals len(rounds), which equals current_round.
C2_SpeakerCountSum ==
    (calls >= 1 /\ FreshRoster /\ RosterSize >= 5)
    => /\ Len(rounds) <= RosterSize
       /\ SumSpeakerCount(RosterSize) = Len(rounds)
       /\ Len(rounds) = current_round

C2_Witness ==
    /\ calls >= 1 /\ FreshRoster /\ RosterSize >= 5
    /\ pc = "rounds" /\ Len(rounds) >= 3

----------------------------------------------------------------------------
(* C3 *)

\* C3: in every round of the schedule, after it is appended and after every
\* balancing swap, no participant holds two roles and none is listed twice.
C3_RolesDisjoint == \A i \in 1..Len(rounds) : NoRepeat(RoleHolders(rounds[i]))

C3_Witness == pc = "balance" /\ swaps >= 2 /\ Len(rounds) >= 3

----------------------------------------------------------------------------
(* C4 *)

----------------------------------------------------------------------------
(* C5 *)

----------------------------------------------------------------------------
(* C6 *)

\* C6: after distribute_roles returns True on a fresh roster of N >= 5, every
\* participant has listener_count >= 1.
C6_ListenerCoverage ==
    (Returned("True") /\ FreshRoster /\ RosterSize >= 5)
    => \A p \in Ids : objs[p].listener_count >= 1

\* the same on rosters with pairwise distinct names
C6_ListenerCoverageDistinctNames ==
    (Returned("True") /\ FreshRoster /\ DistinctNames /\ RosterSize >= 5)
    => \A p \in Ids : objs[p].listener_count >= 1

----------------------------------------------------------------------------
(* C7 *)

\* C7: WebinarRoleDistributor.distribute_roles terminates for every fresh roster
\* of N >= 5 and every outcome of the random choices.  As a property of single
\* states: until the call has returned, some step of the program changes its
\* state (a call that can only repeat a step which changes nothing never returns).
C7_V2AlwaysProgresses ==
    (calls >= 1 /\ FreshRoster /\ RosterSize >= 5 /\ deleted = <<>>)
    => (pc = "done" \/ ENABLED <<NextV2>>_vars)

\* the same as a property of runs: a call on a fresh roster of N >= 5 that is in
\* the round loop or in _balance_roles eventually returns
V2Terminates ==
    (pc \in {"rounds", "balance"} /\ FreshRoster /\ RosterSize >= 5) ~> (pc = "done")

----------------------------------------------------------------------------
(* C8 *)

\* C8: every distribute_roles call of RoleDistributor terminates: once it is in
\* the round loop or in _balance_roles it eventually returns; the round loop
\* never runs past max_rounds, and every step of _balance_roles either performs
\* a swap or moves on to the next while loop.
C8_Terminates ==
    /\ (pc \in {"rounds", "balance"}) ~> (pc = "done")
    /\ [](current_round <= max_rounds)
    /\ [][(pc = "balance" /\ pc' = "balance") => (bal' > bal \/ swaps' > swaps)]_vars

\* a call returned after an assignment attempt found no eligible swap
C8_Witness ==
    /\ Returned("True") /\ Len(rounds) > 0 /\ swaps > 0
    /\ \E p \in Ids : objs[p].observer_count = 0

----------------------------------------------------------------------------
(* C9 *)

\* C9: with all names non-blank, distribute_roles returns False if and only if
\* the roster has fewer than 5 participants or nobody has speaker_count = 0 when
\* the call starts.
C9_FalseIff ==
    (pc = "done" /\ NonBlankNames)
    => ((result = "False")
        <=> (RosterSize < 5 \/ \A p \in DOMAIN pre : pre[p].speaker_count # 0))

\* a call on a large enough roster returned False for want of a first speaker
C9_Witness ==
    /\ Returned("False") /\ NonBlankNames /\ RosterSize >= 5
    /\ \A p \in DOMAIN pre : pre[p].speaker_count # 0

----------------------------------------------------------------------------
(* C10 *)

\* C10: whenever distribute_roles returns False the schedule is empty, the
\* balancing pass has not run and every counter has its value from before the call.
C10_FalseLeavesNoTrace ==
    Returned("False")
    => /\ rounds = <<>>
       /\ ~balance_ran
       /\ swaps = 0
       /\ \A p \in Ids :
             /\ objs[p].speaker_count = pre[p].speaker_count
             /\ objs[p].listener_count = pre[p].listener_count
             /\ objs[p].observer_count = pre[p].observer_count

\* a second call on an instance whose first call built a schedule returned False
C10_Witness ==
    /\ Returned("False") /\ calls = 2
    /\ \E p \in Ids : pre[p].listener_count > 0 /\ pre[p].speaker_count > 0

----------------------------------------------------------------------------
(* C11 *)

\* the call before the current one started on a roster with all counters 0
FreshBeforePreviousCall ==
    \A p \in DOMAIN prev.pre :
        /\ prev.pre[p].speaker_count = 0
        /\ prev.pre[p].listener_count = 0
        /\ prev.pre[p].observer_count = 0

\* C11: a second distribute_roles call on the same participant objects (N >= 5,
\* fresh before the first call) returns the same result and leaves the same list
\* of rounds as the first call did.
C11_SecondCallSameSchedule ==
    (pc = "done" /\ calls = 2 /\ FreshBeforePreviousCall /\ RosterSize >= 5)
    => /\ result = prev.result
       /\ rounds = prev.rounds

\* what the code does instead, whatever the random choices of either call: with
\* distinct non-blank names the first call returns True with N rounds and leaves
\* every speaker_count at 1, so the second finds no first speaker and returns
\* False with an empty schedule
C11_SecondCallReturnsFalse ==
    (pc = "done" /\ calls = 2 /\ FreshBeforePreviousCall /\ RosterSize >= 5
        /\ DistinctNames /\ NonBlankNames)
    => /\ prev.result = "True"
       /\ Len(prev.rounds) = RosterSize
       /\ result = "False"
       /\ rounds = <<>>

----------------------------------------------------------------------------
(* C12 *)

SetOf(list) == {list[k] : k \in 1..Len(list)}

\* the heap and the schedule a further _balance_roles() would leave
BalancedAgain == _balance_roles(objs, rounds)

\* C12: after a completed distribute_roles run on a fresh roster of N >= 5,
\* applying _balance_roles once more changes no round's listener or observer set
\* and no participant's counter.  Stated for rosters with pairwise distinct names.
C12_BalanceIdempotent ==
    (Returned("True") /\ FreshRoster /\ DistinctNames /\ RosterSize >= 5)
    => /\ BalancedAgain.objs = objs
       /\ \A i \in 1..Len(rounds) :
             /\ SetOf(BalancedAgain.rounds[i].listeners) = SetOf(rounds[i].listeners)
             /\ SetOf(BalancedAgain.rounds[i].observers) = SetOf(rounds[i].observers)

\* the steps of _balance_roles compute BalanceFrom: every step inside the pass
\* leaves the outcome of the rest of the pass unchanged, and the pass returns
\* when nothing is left to do
BalanceStepsFollowBalanceFrom ==
    [][(pc = "balance" /\ ~(pc' = "rounds"))
        => IF pc' = "balance"
           THEN BalanceFrom(objs', rounds', bal') = BalanceFrom(objs, rounds, bal)
           ELSE BalanceFrom(objs, rounds, bal) = [objs |-> objs', rounds |-> rounds']]_vars

----------------------------------------------------------------------------
(* C13 *)

\* exclusion and presence as object identity decides them
IdentityExcluded(p, exclude) == p \in SetOf(exclude)

MembershipByIdentity ==
    \A p \in SetOf(participants) :
        /\ \A s \in SetOf(participants) :
              ~IdentityExcluded(p, <<s>>)
              => /\ (objs[p].speaker_count = 0
                        => p \in _select_preparing_participant(<<s>>))
                 /\ \A role \in {"listener", "observer"} :
                       \E selected \in _select_participants_for_role(
                                           role, <<s>>, Len(participants)) :
                           p \in SetOf(selected)
        /\ \A i \in 1..Len(rounds) :
              (~IdentityExcluded(p, get_participants(rounds[i]))
                    /\ rounds[i].listeners # <<>> /\ rounds[i].observers # <<>>)
              => /\ _can_assign_to_round(objs, p, rounds[i], "listener")
                 /\ _can_assign_to_round(objs, p, rounds[i], "observer")

\* C13: in _select_preparing_participant, _select_participants_for_role and
\* _can_assign_to_round a participant that is a different object from every
\* member of the exclude list / the round is treated as not excluded and not
\* present, even when its names and counters equal those of a member.
C13_MembershipByIdentity == calls >= 1 => MembershipByIdentity

\* the same on rosters with pairwise distinct names, where no two participants
\* are ever equal field by field
C13_MembershipByIdentityDistinctNames ==
    (calls >= 1 /\ DistinctNames) => MembershipByIdentity

----------------------------------------------------------------------------
(* C14 *)

ConfigFromRoster ==
    /\ max_rounds = Len(participants)
    /\ observers_per_round = (IF Len(participants) >= 15 THEN 2 ELSE 1)

\* C14: in WebinarRoleDistributor the configuration a distribute_roles call runs
\* with is the one derived from the roster it operates on, after any sequence
\* of delete_participant calls: max_rounds = len(participants) and
\* observers_per_round = 2 if len(participants) >= 15 else 1.
C14_V2ConfigFromRoster == pc \in {"rounds", "balance"} => ConfigFromRoster

\* the same for instances on which delete_participant was never called
C14_V2ConfigFromRosterNoDelete ==
    (pc \in {"rounds", "balance"} /\ deleted = <<>>) => ConfigFromRoster

----------------------------------------------------------------------------
(* C15 *)

\* delete_participant removed someone and the participants left were fresh
\* when the call started
FreshAfterDelete ==
    /\ Len(participants) < Len(objs)
    /\ \A p \in SetOf(participants) :
          pre[p].speaker_count = 0 /\ pre[p].listener_count = 0
              /\ pre[p].observer_count = 0

\* C15: in WebinarRoleDistributor, when delete_participant has removed
\* participants before the run and M >= 5 fresh participants remain, every
\* distribute_roles call that returns True leaves every remaining participant
\* with speaker_count = 1.
C15_V2SpeakOnceAfterDelete ==
    (Returned("True") /\ calls = 1 /\ FreshAfterDelete /\ RosterSize >= 5)
    => \A p \in SetOf(participants) : objs[p].speaker_count = 1

----------------------------------------------------------------------------
(* C16 *)

\* C16: delete_participant changes only roster membership: it removes at most
\* the given participant from self.participants and leaves every counter (the
\* removed participant's too), the rounds, current_round and next_speaker
\* unchanged; when the participant is not in the roster nothing changes.
C16_DeleteFrame ==
    [][Len(deleted') > Len(deleted)
        => LET participant == deleted'[Len(deleted')]
           IN  /\ objs' = objs
               /\ rounds' = rounds
               /\ current_round' = current_round
               /\ next_speaker' = next_speaker
               /\ participants' = SelectSeq(participants, LAMBDA q : q # participant)
               /\ (participant \notin SetOf(participants)
                     => UNCHANGED <<participants, max_rounds, observers_per_round>>)]_vars

\* after a run, a participant who had listened was deleted, and then deleted
\* once more when no longer in the roster
C16_Witness ==
    /\ Len(deleted) = 2 /\ deleted[1] = deleted[2] /\ deleted[1] \notin SetOf(participants)
    /\ rounds # <<>> /\ objs[deleted[1]].listener_count > 0

----------------------------------------------------------------------------
(* C17 *)

\* C17: _balance_roles changes only listener sets, observer sets, listener_count
\* and observer_count: every step of it leaves the number of rounds, each
\* round's number, speaker and preparing participant, and every speaker_count
\* unchanged.
C17_BalanceFrame ==
    [][pc = "balance"
        => /\ Len(rounds') = Len(rounds)
           /\ \A i \in 1..Len(rounds) :
                 /\ rounds'[i].round_number = rounds[i].round_number
                 /\ rounds'[i].speaker = rounds[i].speaker
                 /\ rounds'[i].preparing = rounds[i].preparing
           /\ \A p \in Ids : objs'[p].speaker_count = objs[p].speaker_count]_vars

\* a full schedule came out of a balancing pass that swapped at least twice
C17_Witness == Returned("True") /\ swaps >= 2 /\ Len(rounds) = RosterSize

----------------------------------------------------------------------------
(* C18 *)

\* the round after one with a preparing participant has that participant as speaker
PreparingSpeaksNext ==
    \A r \in 1..(Len(rounds) - 1) :
        rounds[r].preparing # None => rounds[r + 1].speaker = rounds[r].preparing

\* once the round loop has ended, nobody is left preparing
LastRoundPreparesNobody ==
    (pc \in {"balance", "done"} /\ rounds # <<>>)
    => rounds[Len(rounds)].preparing = None

\* a step that appends a round takes a speaker whose speaker_count was 0
SpeakerWasUnserved ==
    Len(rounds') = Len(rounds) + 1
    => objs[rounds'[Len(rounds')].speaker].speaker_count = 0

\* C18: in the schedule built on a fresh roster of N >= 5, every round with a
\* preparing participant is followed by a round whose speaker is that
\* participant, the last round's preparing participant is None, and every
\* speaker had speaker_count = 0 just before its round was appended.
C18_PreparingChain ==
    /\ []((calls >= 1 /\ FreshRoster /\ RosterSize >= 5)
            => (PreparingSpeaksNext /\ LastRoundPreparesNobody))
    /\ [][(calls >= 1 /\ FreshRoster /\ RosterSize >= 5) => SpeakerWasUnserved]_vars

\* the same on rosters with pairwise distinct names
C18_PreparingChainDistinctNames ==
    /\ []((calls >= 1 /\ FreshRoster /\ DistinctNames /\ RosterSize >= 5)
            => (PreparingSpeaksNext /\ LastRoundPreparesNobody))
    /\ [][(calls >= 1 /\ FreshRoster /\ DistinctNames /\ RosterSize >= 5)
            => SpeakerWasUnserved]_vars

----------------------------------------------------------------------------
(* C19 *)

\* the arguments _select_participants_for_role is examined with: each role, every
\* exclude list made of roster members, every count up to MaxCount
SelectRoles == {"listener", "observer"}

ExcludeLists ==
    {SelectSeq(participants, LAMBDA p : p \in X) : X \in SUBSET SetOf(participants)}

SelectCounts == 0..MaxCount

\* the roster minus the exclude list, `not in` comparing as the dataclass does
CandidatePool(exclude) ==
    {p \in SetOf(participants) :
        \A j \in 1..Len(exclude) : p # exclude[j] /\ objs[p] # objs[exclude[j]]}

Smaller(a, b) == IF a < b THEN a ELSE b

----------------------------------------------------------------------------
(* C20 *)

UnservedPool(role, exclude) ==
    {p \in CandidatePool(exclude) : get_role_count(objs, p, role) = 0}

----------------------------------------------------------------------------
(* C21 *)

\* the step is a successful _assign_as_listener call of _balance_roles
ListenerSwapStep ==
    /\ pc = "balance"
    /\ NextCall < BalEnd
    /\ BalRole(NextCall) = "listener"
    /\ swaps' = swaps + 1

\* participant e leaves the listeners of round i in the step
EvictedListener(i, e) ==
    /\ e \in SetOf(rounds[i].listeners)
    /\ e \notin SetOf(rounds'[i].listeners)

\* C21: whenever _assign_as_listener performs a swap in a round, the evicted
\* participant is a listener of that round whose listener_count is the maximum
\* among that round's listeners and was greater than 1 before the swap, and it
\* loses exactly one; no step of the balancing lowers a nonzero listener_count
\* to 0.
C21_ListenerEviction ==
    [][/\ ListenerSwapStep =>
            \E i \in 1..Len(rounds) : \E e \in Ids :
                /\ EvictedListener(i, e)
                /\ \A l \in SetOf(rounds[i].listeners) :
                      objs[l].listener_count <= objs[e].listener_count
                /\ objs[e].listener_count > 1
                /\ objs'[e].listener_count = objs[e].listener_count - 1
                /\ \A q \in Ids \ {e} :
                      objs'[q].listener_count >= objs[q].listener_count
       /\ pc = "balance" =>
            \A p \in Ids : objs[p].listener_count > 0 => objs'[p].listener_count > 0
      ]_vars

\* _assign_as_listener has just swapped the first participant of the roster
\* into a round: the balancing is still at its first position (a successful
\* listener call is the only step that leaves it there) and a swap is counted
C21_Witness ==
    /\ pc = "balance" /\ bal = 0 /\ swaps >= 1
    /\ objs[participants[1]].listener_count = 1
    /\ \E i \in 1..Len(rounds) : participants[1] \in SetOf(rounds[i].listeners)

----------------------------------------------------------------------------
(* C22 *)

RoundsAsListener(p) == {i \in 1..Len(rounds) : p \in SetOf(rounds[i].listeners)}

RoundsAsObserver(p) == {i \in 1..Len(rounds) : p \in SetOf(rounds[i].observers)}

\* C22: counter consistency on a fresh roster: after every appended round and
\* every completed balancing swap, each participant's speaker_count is the
\* number of rounds in which it is the speaker, its listener_count the number
\* of rounds whose listeners contain it, and its observer_count the number of
\* rounds whose observers contain it.
C22_CounterConsistency ==
    FreshRoster =>
        \A p \in Ids :
            /\ objs[p].speaker_count = Cardinality(RoundsAsSpeaker(p))
            /\ objs[p].listener_count = Cardinality(RoundsAsListener(p))
            /\ objs[p].observer_count = Cardinality(RoundsAsObserver(p))

\* the balancing of a fresh roster has completed swaps, somebody listens in
\* two rounds and somebody else is still without an observation
C22_Witness ==
    /\ FreshRoster /\ pc = "balance" /\ swaps >= 2
    /\ \E p \in Ids : objs[p].listener_count >= 2
    /\ \E q \in Ids : objs[q].observer_count = 0 /\ objs[q].speaker_count = 1

----------------------------------------------------------------------------
(* C23 *)

\* the step leaves every listener_count and every round's listener set alone
ListenersUntouched ==
    /\ \A p \in Ids : objs'[p].listener_count = objs[p].listener_count
    /\ Len(rounds') = Len(rounds)
    /\ \A i \in 1..Len(rounds) :
          SetOf(rounds'[i].listeners) = SetOf(rounds[i].listeners)

\* C23: on a fresh roster of N >= 5 every participant has listener_count >= 1
\* when the round loop ends, so _balance_roles performs no listener swap: the
\* listener set of every round and every listener_count are the same before
\* and after _balance_roles.
C23_NoListenerBalancing ==
    /\ []((pc = "balance" /\ FreshRoster /\ RosterSize >= 5)
            => \A p \in Ids : objs[p].listener_count >= 1)
    /\ [][(pc = "balance" /\ FreshRoster /\ RosterSize >= 5)
            => ListenersUntouched]_vars

\* the same with pairwise distinct names
C23_NoListenerBalancingDistinctNames ==
    /\ []((pc = "balance" /\ FreshRoster /\ DistinctNames /\ RosterSize >= 5)
            => \A p \in Ids : objs[p].listener_count >= 1)
    /\ [][(pc = "balance" /\ FreshRoster /\ DistinctNames /\ RosterSize >= 5)
            => ListenersUntouched]_vars

\* on its own: no balancing step of a fresh roster touches the listeners
C23_ListenersUntouched ==
    [][(pc = "balance" /\ FreshRoster /\ RosterSize >= 5) => ListenersUntouched]_vars

----------------------------------------------------------------------------
(* C24 *)

\* the participants whose counter for the role is 0 in heap o
Unassigned(o, role) == {p \in DOMAIN o : get_role_count(o, p, role) = 0}

\* the step is a successful _assign_as_listener or _assign_as_observer call
SwapStep == pc = "balance" /\ NextCall < BalEnd /\ swaps' = swaps + 1

\* participant record c with its counter for the role changed by d
WithCount(c, role, d) ==
    IF role = "listener" THEN [c EXCEPT !.listener_count = @ + d]
    ELSE [c EXCEPT !.observer_count = @ + d]

\* the step moves one unit of the role counter from e to target, whose counter
\* was 0, and changes no other counter of anybody
MovesOne(role, e, target) ==
    /\ get_role_count(objs, target, role) = 0
    /\ get_role_count(objs, e, role) >= 1
    /\ objs' = [objs EXCEPT ![target] = WithCount(@, role, 1),
                            ![e] = WithCount(@, role, -1)]

\* C24: during _balance_roles the number of participants with observer_count = 0
\* never increases from one swap to the next, and neither does the number of
\* participants with listener_count = 0; every swap raises the counter of the
\* participant under balance from 0 to 1 and lowers the counter of exactly one
\* other participant by 1.
C24_SwapsNeverUnserve ==
    [][/\ pc = "balance" =>
            /\ Cardinality(Unassigned(objs', "observer"))
                  <= Cardinality(Unassigned(objs, "observer"))
            /\ Cardinality(Unassigned(objs', "listener"))
                  <= Cardinality(Unassigned(objs, "listener"))
       /\ SwapStep =>
            \E e \in Ids \ {BalParticipant(NextCall)} :
                MovesOne(BalRole(NextCall), e, BalParticipant(NextCall))
      ]_vars

\* _assign_as_observer has just swapped the first participant of the roster into
\* a round (the balancing stands at its observer position with one swap counted)
\* and a participant is without an observation after it
C24_Witness ==
    /\ pc = "balance" /\ bal = 1 /\ swaps = 1
    /\ objs[participants[1]].observer_count = 1
    /\ \E i \in 1..Len(rounds) : participants[1] \in SetOf(rounds[i].observers)
    /\ Unassigned(objs, "observer") # {}

----------------------------------------------------------------------------
(* C25 *)

\* distribute_roles has picked first_speaker on a fresh roster of N >= 5
FirstPickMade == FreshRoster /\ RosterSize >= 5 /\ first_speaker # None

====
